---- MODULE Spec2Model ----
(***************************************************************************)
(* Model of the updater of robotnix: the incremental fetch / lockfile      *)
(* engine (src/updater/src/repo_lockfile.rs, src/updater/src/base.rs) and  *)
(* the manifest resolution engine (src/updater/src/repo_manifest.rs).      *)
(*                                                                         *)
(* Rust's Option<T> is modelled as a set with at most one element:         *)
(* None is {} and Some(v) is {v}.                                          *)
(***************************************************************************)
EXTENDS Integers, Sequences, FiniteSets, TLC

VARIABLES
    \* ---- incrementally_fetch_projects (repo_lockfile.rs) ----
    settings,    \* settings[i]: whether project i has branch_settings for the branch
    remote,      \* remote[i]: Some(rev) advertised for refs/heads/<branch>, or None
    file,        \* the lockfile file: None (missing) or Some(sequence of tokens)
    tmp,         \* the temporary file of AtomicWriteFile: None or Some(tokens)
    lockfile,    \* the in-memory RepoLockfile: path -> Option<FetchgitArgs>
    idx,         \* position of the loop over the projects
    pc,          \* position inside the function
    rerun,       \* FALSE in the first run, TRUE in the run after it
    loaded,      \* the lockfile as loaded at the start of the run
    reply,       \* reply[i]: what get_rev_of_branch returned for project i in this run
    fetched,     \* projects for which nix-prefetch-git was started in this run
    outcome,     \* outcome[i]: state of project i in this run
    prevFetched, \* projects fetched in the first run
    prevDone,    \* projects whose step completed in the first run
    \* ---- GitRepoManifest::get_url_and_ref / get_projects (repo_manifest.rs) ----
    manifest,    \* a flattened GitRepoManifest
    project,     \* the GitRepoProject being resolved
    root_url,    \* url of the manifest repository
    resolved,    \* None before the call, Some(result) after it
    remote_table, \* None, or Some(the table get_remote_specs built in the call)
    remote_table_slash, \* the same for the call with root_url followed by "/"
    calls,       \* the calls of get_remote_specs made so far: "U" and "U/"
    \* ---- GitRepoManifest::read_and_flatten (repo_manifest.rs) ----
    files,       \* the manifest files under manifest_path
    flattened,   \* None before the call, Some(result) after it
    stack,       \* the frames of the calls of read_and_flatten that have not returned
    spc,         \* position of the recursion of read_and_flatten
    \* ---- get_rev_of_branch (base.rs) ----
    ref_string,  \* the ref string a caller holds
    advertised,  \* the references the remote advertises: name -> oid
    reachable,   \* whether the remote answers the listing
    probe,       \* None before the call, Some(result) after it
    settings_ref, \* the git_ref stored in the project's branch settings
    caller,      \* the function that called nix_prefetch_git_repo
    \* ---- fetch_git_repo_metadata / get_projects (repo_manifest.rs) ----
    branches,    \* the branches to process, in order
    manifests,   \* manifests[b]: the flattened manifest of branch b
    table,       \* projects: path -> RepoProject
    bidx,        \* position of the loop over the branches
    mpc,         \* position inside fetch_git_repo_metadata
    result,      \* None, or Some(the list that is returned)
    outfile      \* the file the project list is written to: None or Some(content)

ovars == <<settings, remote, file, tmp, lockfile, idx, pc, rerun, loaded, reply,
           fetched, outcome, prevFetched, prevDone>>
rvars == <<manifest, project, root_url, resolved, remote_table, remote_table_slash, calls>>
fvars == <<files, flattened, stack, spc>>
pvars == <<ref_string, advertised, reachable, probe, settings_ref, caller>>
tvars == <<branches, manifests, table, bidx, mpc, result, outfile>>
vars == <<ovars, rvars, fvars, pvars, tvars>>

None == {}
Some(v) == {v}
IsSome(o) == o # {}
Unwrap(o) == CHOOSE v \in o : TRUE

\* ---------------------------------------------------------------- bounds
NumProjects == 2
MaxRemotes == 2
MaxFiles == 3
MaxManifestProjects == 2
\* the number of nested calls the thread's stack has room for
StackLimit == 5
\* the number of pieces of a root url
MaxUrlParts == 4

\* =======================================================================
\*  The fetch orchestrator
\* =======================================================================
Projects == 1..NumProjects
\* project i has path i; path 0 is a path that is in no project of the list
Paths == 0..NumProjects
Revs == {"r1", "r2"}

\* FetchgitArgs, as nix-prefetch-git prints it for a url and a revision
FetchgitArgs(url, rev) == [url |-> url, rev |-> rev, hash |-> <<url, rev>>]

\* the lockfiles a run can find on disk: every key holds null or what an
\* earlier fetch of that path returned (path 0, when present, a descriptor)
RepoLockfile ==
    UNION {{l \in [dom -> {None} \cup {Some(FetchgitArgs(p, r)) : p \in dom, r \in Revs}] :
                \A p \in dom : /\ l[p] = None \/ Unwrap(l[p]).url = p
                               /\ p = 0 => l[p] = Some(FetchgitArgs(0, "r1"))} : dom \in SUBSET Paths}

EmptyLockfile == [p \in {} |-> None]
insertDroppingStale(l, p, v) ==
    [q \in ((DOMAIN l) \cap Projects) \cup {p} |-> IF q = p THEN v ELSE l[q]]

\* HashMap::insert
insert(l, p, v) == [q \in (DOMAIN l) \cup {p} |-> IF q = p THEN v ELSE l[q]]

\* ---- serde_json::to_string_pretty / from_str on a RepoLockfile ----------
Tok(t, k, v) == [t |-> t, k |-> k, v |-> v]
Open == Tok("{", 0, None)
Close == Tok("}", 0, None)

RECURSIVE Entries(_, _)
Entries(l, p) ==
    IF p > NumProjects THEN <<>>
    ELSE (IF p \in DOMAIN l THEN <<Tok("entry", p, l[p])>> ELSE <<>>) \o Entries(l, p + 1)

to_string_pretty(l) == <<Open>> \o Entries(l, 0) \o <<Close>>

\* whether the text is a complete JSON object
Parses(s) ==
    /\ Len(s) >= 2
    /\ s[1] = Open
    /\ s[Len(s)] = Close
    /\ \A n \in 2..(Len(s) - 1) : s[n].t = "entry"

\* a complete JSON object that is not a map from paths to descriptor-or-null
WrongShape == <<Open, Tok("array", 0, None), Close>>

from_str(s) ==
    LET keys == {s[n].k : n \in 2..(Len(s) - 1)}
    IN [p \in keys |-> s[CHOOSE n \in 2..(Len(s) - 1) : s[n].k = p].v]

\* ---- nix_prefetch_git_repo's decision (base.rs) ------------------------
NeedsFetchAlways(prev, rev) == TRUE

NeedsFetch(prev, rev) == IF IsSome(prev) THEN Unwrap(prev).rev # rev ELSE TRUE

\* ---- the lookup of the previous descriptor (repo_lockfile.rs) ----------
OldArgs(l, path) == IF path \in DOMAIN l /\ IsSome(l[path]) THEN l[path] ELSE None

\* the in-memory map does not outlive a run that returns Err or is killed
Dropped == lockfile' = EmptyLockfile /\ loaded' = EmptyLockfile

Running == {"loop", "save", "commit"}
Errors == {"Err(Parser)", "Err(NixPrefetch)", "Err(SaveLockfile)"}
NoReply == [i \in Projects |-> "none"]
probed == {i \in Projects : reply[i] # "none"}

OrchInit ==
    /\ settings \in [Projects -> BOOLEAN]
    /\ remote \in [Projects -> {None} \cup {Some(r) : r \in Revs}]
    /\ \A i \in Projects : ~settings[i] => remote[i] = None
    /\ file \in {None, Some(<<Open>>), Some(WrongShape)} \cup {Some(to_string_pretty(l)) : l \in RepoLockfile}
    /\ tmp = None
    /\ lockfile = EmptyLockfile
    /\ idx = 1
    /\ pc = "start"
    /\ rerun = FALSE
    /\ loaded = EmptyLockfile
    /\ reply = NoReply
    /\ fetched = {}
    /\ outcome = [i \in Projects |-> "Unresolved"]
    /\ prevFetched = {}
    /\ prevDone = {}

LoadStartsFromScratch ==
    /\ pc = "start"
    /\ lockfile' = IF file # None /\ Parses(Unwrap(file)) THEN from_str(Unwrap(file))
                   ELSE EmptyLockfile
    /\ pc' = "loop"
    /\ loaded' = lockfile'
    /\ UNCHANGED <<settings, remote, file, tmp, idx, rerun, reply, fetched, outcome,
                   prevFetched, prevDone>>

\* fs::read, str::from_utf8 and serde_json::from_str at the start of the run
Load ==
    /\ pc = "start"
    /\ IF file = None
       THEN /\ lockfile' = EmptyLockfile
            /\ pc' = "loop"
       ELSE IF Parses(Unwrap(file))
            THEN /\ lockfile' = from_str(Unwrap(file))
                 /\ pc' = "loop"
            ELSE /\ lockfile' = EmptyLockfile
                 /\ pc' = "Err(Parser)"
    /\ loaded' = lockfile'
    /\ UNCHANGED <<settings, remote, file, tmp, idx, rerun, reply, fetched, outcome,
                   prevFetched, prevDone>>

SkipRecordsAbsent ==
    /\ pc = "loop"
    /\ idx <= NumProjects
    /\ ~settings[idx]
    /\ idx' = idx + 1
    /\ lockfile' = insert(lockfile, idx, None)
    /\ outcome' = [outcome EXCEPT ![idx] = "Skipped"]
    /\ UNCHANGED <<settings, remote, file, tmp, pc, rerun, loaded, reply,
                   fetched, prevFetched, prevDone>>

\* a project without branch_settings for the branch: `None => continue`
Skip ==
    /\ pc = "loop"
    /\ idx <= NumProjects
    /\ ~settings[idx]
    /\ idx' = idx + 1
    /\ outcome' = [outcome EXCEPT ![idx] = "Skipped"]
    /\ UNCHANGED <<settings, remote, file, tmp, lockfile, pc, rerun, loaded, reply,
                   fetched, prevFetched, prevDone>>

\* get_rev_of_branch fails with a libgit error: the run returns Err
ProbeFails ==
    /\ pc = "loop"
    /\ idx <= NumProjects
    /\ settings[idx]
    /\ reply' = [reply EXCEPT ![idx] = "Libgit"]
    /\ Dropped
    /\ pc' = "Err(NixPrefetch)"
    /\ UNCHANGED <<settings, remote, file, tmp, idx, rerun, fetched,
                   outcome, prevFetched, prevDone>>

ProbeAbsentAborts ==
    /\ pc = "loop"
    /\ idx <= NumProjects
    /\ settings[idx]
    /\ remote[idx] = None
    /\ reply' = [reply EXCEPT ![idx] = "BranchNotFound"]
    /\ Dropped
    /\ pc' = "Err(NixPrefetch)"
    /\ UNCHANGED <<settings, remote, file, tmp, idx, rerun, fetched,
                   outcome, prevFetched, prevDone>>

ProbeAbsentContinues ==
    /\ pc = "loop"
    /\ idx <= NumProjects
    /\ settings[idx]
    /\ remote[idx] = None
    /\ reply' = [reply EXCEPT ![idx] = "BranchNotFound"]
    /\ lockfile' = insert(lockfile, idx, None)
    /\ outcome' = [outcome EXCEPT ![idx] = "Absent"]
    /\ idx' = idx + 1
    /\ UNCHANGED <<settings, remote, file, tmp, pc, rerun, loaded, fetched,
                   prevFetched, prevDone>>

\* get_rev_of_branch finds no refs/heads/<branch>: None is inserted
ProbeAbsent ==
    /\ pc = "loop"
    /\ idx <= NumProjects
    /\ settings[idx]
    /\ remote[idx] = None
    /\ reply' = [reply EXCEPT ![idx] = "BranchNotFound"]
    /\ lockfile' = insert(lockfile, idx, None)
    /\ outcome' = [outcome EXCEPT ![idx] = "Absent"]
    /\ pc' = "save"
    /\ UNCHANGED <<settings, remote, file, tmp, idx, rerun, loaded, fetched,
                   prevFetched, prevDone>>

\* get_rev_of_branch returns a revision; nix-prefetch-git runs unless the
\* previous descriptor has that revision; its result is inserted
ProbeResolved ==
    /\ pc = "loop"
    /\ idx <= NumProjects
    /\ settings[idx]
    /\ remote[idx] # None
    /\ reply' = [reply EXCEPT ![idx] = "Ok"]
    /\ LET rev == Unwrap(remote[idx])
           old == OldArgs(lockfile, idx)
       IN IF NeedsFetch(old, rev)
          THEN /\ fetched' = fetched \cup {idx}
               /\ \E parsed \in BOOLEAN :
                     IF parsed
                     THEN /\ lockfile' = insert(lockfile, idx, Some(FetchgitArgs(idx, rev)))
                          /\ outcome' = [outcome EXCEPT ![idx] = "Resolved"]
                          /\ pc' = "save"
                          /\ loaded' = loaded
                     ELSE /\ pc' = "Err(NixPrefetch)"
                          /\ Dropped
                          /\ outcome' = outcome
          ELSE /\ fetched' = fetched
               /\ lockfile' = insert(lockfile, idx, old)
               /\ outcome' = [outcome EXCEPT ![idx] = "Resolved"]
               /\ pc' = "save"
               /\ loaded' = loaded
    /\ UNCHANGED <<settings, remote, file, tmp, idx, rerun, prevFetched, prevDone>>

\* save_repo_lockfile: AtomicWriteFile::open, to_string_pretty, file.write.
\* Write::write may accept only the first n bytes of the buffer.
SaveWrite ==
    /\ pc = "save"
    /\ LET buf == to_string_pretty(lockfile)
       IN \E n \in 1..Len(buf) : tmp' = Some(SubSeq(buf, 1, n))
    /\ pc' = "commit"
    /\ UNCHANGED <<settings, remote, file, lockfile, idx, rerun, loaded, reply, fetched,
                   outcome, prevFetched, prevDone>>

SaveCommitNoRename ==
    /\ pc = "commit"
    /\ file' = file
    /\ tmp' = None
    /\ idx' = idx + 1
    /\ pc' = "loop"
    /\ UNCHANGED <<settings, remote, lockfile, rerun, loaded, reply, fetched,
                   outcome, prevFetched, prevDone>>

\* save_repo_lockfile: file.commit renames the temporary file over the lockfile
SaveCommit ==
    /\ pc = "commit"
    /\ file' = tmp
    /\ tmp' = None
    /\ idx' = idx + 1
    /\ pc' = "loop"
    /\ UNCHANGED <<settings, remote, lockfile, rerun, loaded, reply, fetched,
                   outcome, prevFetched, prevDone>>

SaveFailsAfterCommit ==
    /\ pc \in {"save", "commit"}
    /\ file' = IF pc = "commit" THEN tmp ELSE file
    /\ tmp' = None
    /\ Dropped
    /\ pc' = "Err(SaveLockfile)"
    /\ UNCHANGED <<settings, remote, idx, rerun, reply, fetched,
                   outcome, prevFetched, prevDone>>

\* save_repo_lockfile returns Err (open, write or commit failed): the
\* temporary file is dropped and the run returns Err
SaveFails ==
    /\ pc \in {"save", "commit"}
    /\ tmp' = None
    /\ Dropped
    /\ pc' = "Err(SaveLockfile)"
    /\ UNCHANGED <<settings, remote, file, idx, rerun, reply, fetched,
                   outcome, prevFetched, prevDone>>

FinishEarly ==
    /\ pc = "loop"
    /\ pc' = "Ok"
    /\ UNCHANGED <<settings, remote, file, tmp, lockfile, idx, rerun, loaded, reply,
                   fetched, outcome, prevFetched, prevDone>>

\* the loop is over: Ok(lockfile)
Finish ==
    /\ pc = "loop"
    /\ idx > NumProjects
    /\ pc' = "Ok"
    /\ UNCHANGED <<settings, remote, file, tmp, lockfile, idx, rerun, loaded, reply,
                   fetched, outcome, prevFetched, prevDone>>

\* the process is killed; a temporary file that was not committed is lost.
\* (Only the first run is followed by another one, so only its kills are modelled.)
Interrupt ==
    /\ pc \in Running
    /\ ~rerun
    /\ pc' = "killed"
    /\ tmp' = None
    /\ Dropped
    /\ UNCHANGED <<settings, remote, file, idx, rerun, reply, fetched,
                   outcome, prevFetched, prevDone>>

\* the pipeline is run again, with the same projects and the same remotes,
\* after a run that was killed or that returned Ok
Rerun ==
    /\ pc \in {"killed", "Ok"}
    /\ ~rerun
    /\ rerun' = TRUE
    /\ prevFetched' = fetched
    /\ prevDone' = 1..(idx - 1)
    /\ pc' = "start"
    /\ lockfile' = EmptyLockfile
    /\ loaded' = EmptyLockfile
    /\ idx' = 1
    /\ reply' = NoReply
    /\ fetched' = {}
    /\ outcome' = [i \in Projects |-> "Unresolved"]
    /\ UNCHANGED <<settings, remote, file, tmp>>

\* the variables of get_rev_of_branch, while it is not the function observed
ProbeIdle ==
    /\ ref_string = <<>>
    /\ advertised = <<>>
    /\ reachable = FALSE
    /\ probe = None
    /\ settings_ref = <<>>
    /\ caller = "none"

\* the variables of fetch_git_repo_metadata, while it does not run
TableIdle ==
    /\ branches = <<>>
    /\ manifests = <<>>
    /\ table = <<>>
    /\ bidx = 1
    /\ mpc = "idle"
    /\ result = None
    /\ outfile = None

\* the variables of get_url_and_ref, while it does not run
ResolveIdle ==
    /\ manifest = <<>>
    /\ project = <<>>
    /\ root_url = <<>>
    /\ resolved = None
    /\ remote_table = None
    /\ remote_table_slash = None
    /\ calls = {}

\* the variables of the stepwise recursion of read_and_flatten, at rest
RecursionIdle ==
    /\ stack = <<>>
    /\ spc = "idle"

\* the variables of read_and_flatten, while it does not run
FlattenIdle ==
    /\ files = <<>>
    /\ flattened = None
    /\ RecursionIdle

\* the variables of the manifest engine, while the orchestrator runs
ManifestIdle ==
    /\ ProbeIdle
    /\ TableIdle
    /\ ResolveIdle
    /\ FlattenIdle

\* the variables of the orchestrator, while the manifest engine runs
OrchIdle ==
    /\ settings = <<>>
    /\ remote = <<>>
    /\ file = None
    /\ tmp = None
    /\ lockfile = EmptyLockfile
    /\ idx = 1
    /\ pc = "idle"
    /\ rerun = FALSE
    /\ loaded = EmptyLockfile
    /\ reply = <<>>
    /\ fetched = {}
    /\ outcome = <<>>
    /\ prevFetched = {}
    /\ prevDone = {}

Init == OrchInit /\ ManifestIdle

Next ==
    \/ Load /\ UNCHANGED <<rvars, fvars, pvars, tvars>>
    \/ Skip /\ UNCHANGED <<rvars, fvars, pvars, tvars>>
    \/ ProbeFails /\ UNCHANGED <<rvars, fvars, pvars, tvars>>
    \/ ProbeAbsent /\ UNCHANGED <<rvars, fvars, pvars, tvars>>
    \/ ProbeResolved /\ UNCHANGED <<rvars, fvars, pvars, tvars>>
    \/ SaveWrite /\ UNCHANGED <<rvars, fvars, pvars, tvars>>
    \/ SaveCommit /\ UNCHANGED <<rvars, fvars, pvars, tvars>>
    \/ SaveFails /\ UNCHANGED <<rvars, fvars, pvars, tvars>>
    \/ Finish /\ UNCHANGED <<rvars, fvars, pvars, tvars>>
    \/ Interrupt /\ UNCHANGED <<rvars, fvars, pvars, tvars>>
    \/ Rerun /\ UNCHANGED <<rvars, fvars, pvars, tvars>>

Spec == Init /\ [][Next]_vars

\* one call of incrementally_fetch_projects, from entry to return: a
\* sequential function that is not killed takes its next step
InitRun == OrchInit /\ ManifestIdle

NextRun ==
    \/ Load /\ UNCHANGED <<rvars, fvars, pvars, tvars>>
    \/ Skip /\ UNCHANGED <<rvars, fvars, pvars, tvars>>
    \/ ProbeFails /\ UNCHANGED <<rvars, fvars, pvars, tvars>>
    \/ ProbeAbsent /\ UNCHANGED <<rvars, fvars, pvars, tvars>>
    \/ ProbeResolved /\ UNCHANGED <<rvars, fvars, pvars, tvars>>
    \/ SaveWrite /\ UNCHANGED <<rvars, fvars, pvars, tvars>>
    \/ SaveCommit /\ UNCHANGED <<rvars, fvars, pvars, tvars>>
    \/ SaveFails /\ UNCHANGED <<rvars, fvars, pvars, tvars>>
    \/ Finish /\ UNCHANGED <<rvars, fvars, pvars, tvars>>

SpecRun == InitRun /\ [][NextRun]_vars /\ WF_vars(NextRun)

\* =======================================================================
\*  Remote and revision resolution (get_remote_specs, get_url_and_ref,
\*  get_projects)
\* =======================================================================
\* A string that is split or stripped at "/" is a sequence of pieces, "/"
\* being a piece of its own; names and refs are atoms.

\* str::strip_suffix('/').unwrap_or(s)
strip_suffix(s) == IF Len(s) > 0 /\ s[Len(s)] = "/" THEN SubSeq(s, 1, Len(s) - 1) ELSE s

\* root_url.split("/") ... url_parts[0..url_parts.len()-2].join("/"):
\* there is one part more than there are "/"; with fewer than two parts the
\* subtraction underflows and the call panics; else the parts but the last two
\* are joined, which is the text before the last but one "/" (nothing when
\* there is a single "/").
SlashPositions(s) == {n \in 1..Len(s) : s[n] = "/"}

DotDotPanics(s) == SlashPositions(s) = {}

DotDotUrl(s) ==
    LET pos == SlashPositions(s)
        last == CHOOSE n \in pos : \A k \in pos : k <= n
        before == pos \ {last}
    IN IF before = {} THEN <<>>
       ELSE SubSeq(s, 1, (CHOOSE n \in before : \A k \in before : k <= n) - 1)

DotDot == <<"..">>

\* Option::or
OrElse(a, b) == IF IsSome(a) THEN a ELSE b

EffectiveDefaultRefRemoteFirst(m, r) ==
    LET is_default_remote ==
            IF IsSome(m.default_remote) THEN Unwrap(m.default_remote).remote = r.name ELSE FALSE
    IN IF is_default_remote
       THEN OrElse(r.default_ref, Unwrap(m.default_remote).default_ref)
       ELSE r.default_ref

EffectiveDefaultRefForAll(m, r) ==
    IF IsSome(m.default_remote)
    THEN OrElse(Unwrap(m.default_remote).default_ref, r.default_ref)
    ELSE r.default_ref

\* the default_ref of a RemoteSpec
EffectiveDefaultRef(m, r) ==
    LET is_default_remote ==
            IF IsSome(m.default_remote) THEN Unwrap(m.default_remote).remote = r.name ELSE FALSE
    IN IF is_default_remote
       THEN OrElse(Unwrap(m.default_remote).default_ref, r.default_ref)
       ELSE r.default_ref

RemoteUrlUnstripped(r, root) == IF r.fetch # DotDot THEN r.fetch ELSE DotDotUrl(root)

\* the url of a RemoteSpec
RemoteUrl(r, root) == IF r.fetch # DotDot THEN strip_suffix(r.fetch) ELSE DotDotUrl(root)

\* HashMap::insert for every remote in order: the last remote of a name stays
get_remote_specs(m, root) ==
    LET names == {m.remotes[n].name : n \in 1..Len(m.remotes)}
        lastOf(nm) == CHOOSE n \in 1..Len(m.remotes) :
                          /\ m.remotes[n].name = nm
                          /\ \A k \in 1..Len(m.remotes) : m.remotes[k].name = nm => k <= n
    IN [nm \in names |->
           [url |-> RemoteUrl(m.remotes[lastOf(nm)], root),
            default_ref |-> EffectiveDefaultRef(m, m.remotes[lastOf(nm)])]]

get_remote_specs_panics(m, root) ==
    \E n \in 1..Len(m.remotes) : m.remotes[n].fetch = DotDot /\ DotDotPanics(root)

Ok(url, ref) == [kind |-> "Ok", err |-> "", url |-> url, ref |-> ref]
Err(e) == [kind |-> "Err", err |-> e, url |-> <<>>, ref |-> ""]
Panic == [kind |-> "panic", err |-> "", url |-> <<>>, ref |-> ""]

\* The argument of Option::unwrap_or is evaluated before the call: the `?`
\* inside it returns the error whether or not the option is Some.
get_url_and_ref(m, remote_name, custom_ref, root) ==
    IF get_remote_specs_panics(m, root) THEN Panic
    ELSE IF m.default_remote = None THEN Err("MissingDefaultRemote")
    ELSE
        LET remote_specs == get_remote_specs(m, root)
            default == Unwrap(m.default_remote)
            name == IF IsSome(remote_name) THEN Unwrap(remote_name) ELSE default.remote
        IN IF name \notin DOMAIN remote_specs THEN Err("UnknownRemote")
           ELSE IF default.default_ref = None THEN Err("MissingDefaultRef")
           ELSE
               LET remote_spec == remote_specs[name]
                   git_ref ==
                       IF IsSome(custom_ref) THEN Unwrap(custom_ref)
                       ELSE IF IsSome(remote_spec.default_ref) THEN Unwrap(remote_spec.default_ref)
                       ELSE Unwrap(default.default_ref)
               IN Ok(remote_spec.url, git_ref)

\* get_projects, for one project: the url of its repository and its ref
ResolveProject(m, p, root) ==
    LET r == get_url_and_ref(m, p.remote, p.git_ref, root)
    IN IF r.kind = "Ok" THEN Ok(r.url \o <<"/">> \o <<p.repo_name>>, r.ref) ELSE r

RemoteNames == {"a", "b"}
Fetches == {<<"https:", "/", "/", "host", "/", "org">>,
            <<"https:", "/", "/", "host", "/", "org", "/">>,
            DotDot}
RootUrls == {<<"https:", "/", "/", "github.com", "/", "LineageOS", "/", "android">>,
             <<"https:", "/", "/", "github.com", "/", "LineageOS", "/", "android", "/">>}
OwnRef(name) == IF name = "a" THEN "rev-a" ELSE "rev-b"

GitRepoRemote ==
    {r \in [name : RemoteNames, fetch : Fetches,
            default_ref : {None} \cup {Some(OwnRef(n)) : n \in RemoteNames}] :
        r.default_ref \in {None, Some(OwnRef(r.name))}}

GitRepoDefaultRemote ==
    [remote : RemoteNames \cup {"zz"}, default_ref : {None, Some("rev-default")}]

GitRepoProject ==
    [repo_name : {"repo"},
     remote : {None} \cup {Some(n) : n \in RemoteNames \cup {"zz"}},
     git_ref : {None, Some("rev-project")}]

SeqsUpTo(S, n) == UNION {[1..k -> S] : k \in 0..n}

ResolveInit ==
    /\ manifest \in [remotes : SeqsUpTo(GitRepoRemote, MaxRemotes),
                     default_remote : {None} \cup {Some(d) : d \in GitRepoDefaultRemote}]
    /\ project \in GitRepoProject
    /\ root_url \in RootUrls
    /\ resolved = None
    /\ remote_table = None
    /\ remote_table_slash = None
    /\ calls = {}

InitResolve ==
    ResolveInit /\ OrchIdle /\ ProbeIdle /\ TableIdle /\ FlattenIdle

\* get_projects resolves the project against the flattened manifest
Resolve ==
    /\ resolved = None
    /\ resolved' = Some(ResolveProject(manifest, project, root_url))
    /\ remote_table' = IF get_remote_specs_panics(manifest, root_url) THEN None
                       ELSE Some(get_remote_specs(manifest, root_url))
    /\ UNCHANGED <<manifest, project, root_url, remote_table_slash, calls>>

NextResolve == Resolve /\ UNCHANGED <<ovars, fvars, pvars, tvars>>

SpecResolve == InitResolve /\ [][NextResolve]_vars

\* ---- get_remote_specs over any root url --------------------------------
\* root_url is a &str argument: the urls the callers pass, and every text of
\* up to MaxUrlParts pieces, a piece being "/" or a text without "/"
AnyRootUrls == RootUrls \cup SeqsUpTo({"/", "host"}, MaxUrlParts)

\* what a call leaves: the table, or nothing when it panicked
SpecsOrPanic(m, root) ==
    IF get_remote_specs_panics(m, root) THEN None ELSE Some(get_remote_specs(m, root))

RootUrlInit ==
    /\ manifest \in [remotes : SeqsUpTo(GitRepoRemote, MaxRemotes),
                     default_remote : {None} \cup {Some(d) : d \in GitRepoDefaultRemote}]
    /\ project = <<>>
    /\ root_url \in AnyRootUrls
    /\ resolved = None
    /\ remote_table = None
    /\ remote_table_slash = None
    /\ calls = {}

InitRootUrl ==
    RootUrlInit /\ OrchIdle /\ ProbeIdle /\ TableIdle /\ FlattenIdle

\* self.get_remote_specs(root_url)
CallWithRoot ==
    /\ "U" \notin calls
    /\ calls' = calls \cup {"U"}
    /\ remote_table' = SpecsOrPanic(manifest, root_url)
    /\ UNCHANGED <<manifest, project, root_url, resolved, remote_table_slash>>

\* self.get_remote_specs(root_url) for the same url followed by "/"
CallWithRootSlash ==
    /\ "U/" \notin calls
    /\ calls' = calls \cup {"U/"}
    /\ remote_table_slash' = SpecsOrPanic(manifest, root_url \o <<"/">>)
    /\ UNCHANGED <<manifest, project, root_url, resolved, remote_table>>

NextRootUrl ==
    \/ CallWithRoot /\ UNCHANGED <<ovars, fvars, pvars, tvars>>
    \/ CallWithRootSlash /\ UNCHANGED <<ovars, fvars, pvars, tvars>>

SpecRootUrl == InitRootUrl /\ [][NextRootUrl]_vars

\* =======================================================================
\*  Include flattening (GitRepoManifest::read, read_and_flatten)
\* =======================================================================
\* The manifest files are 0 (the entry file) .. MaxFiles - 1; an <include>
\* may also name NoSuchFile, a file that is not there.
FileIds == 0..(MaxFiles - 1)
NoSuchFile == MaxFiles

FlatOk(m) == [kind |-> "Ok", err |-> "", manifest |-> m]
FlatErr(e) ==
    [kind |-> "Err", err |-> e,
     manifest |-> [remotes |-> <<>>, projects |-> <<>>, default_remote |-> None,
                   includes |-> <<>>]]

\* GitRepoManifest::read
read(f) == IF f \in DOMAIN files THEN FlatOk(files[f]) ELSE FlatErr("FileRead")

MergeDefaultFirstWins(acc, sub) == FlatOk([acc EXCEPT !.default_remote = OrElse(acc.default_remote, sub.default_remote)])

\* the default remote of a flattened sub-manifest joins the accumulator
MergeDefault(acc, sub) ==
    IF IsSome(sub.default_remote)
    THEN IF acc.default_remote = None
         THEN FlatOk([acc EXCEPT !.default_remote = sub.default_remote])
         ELSE FlatErr("MoreThanOneDefaultRemote")
    ELSE FlatOk(acc)

AppendSubInFront(acc, sub) ==
    [acc EXCEPT !.remotes = sub.remotes \o acc.remotes,
                !.projects = sub.projects \o acc.projects]

\* Vec::append of the remotes and of the projects of a flattened sub-manifest
AppendSub(acc, sub) ==
    [acc EXCEPT !.remotes = acc.remotes \o sub.remotes,
                !.projects = acc.projects \o sub.projects]

RECURSIVE read_and_flatten(_), FlattenIncludes(_, _)

\* the loop over manifest.includes; acc is the manifest so far
FlattenIncludes(acc, incs) ==
    IF incs = <<>> THEN FlatOk([acc EXCEPT !.includes = <<>>])
    ELSE LET sub == read_and_flatten(Head(incs))
         IN IF sub.kind = "Err" THEN sub
            ELSE LET appended == AppendSub(acc, sub.manifest)
                     merged == MergeDefault(appended, sub.manifest)
                 IN IF merged.kind = "Err" THEN merged
                    ELSE FlattenIncludes(merged.manifest, Tail(incs))

read_and_flatten(f) ==
    LET m == read(f)
    IN IF m.kind = "Err" THEN m ELSE FlattenIncludes(m.manifest, m.manifest.includes)

\* the include lists of file f: the files after f (so that no file includes
\* itself, directly or not) and NoSuchFile, each at most once, in any order
IncludeLists(f) ==
    LET targets == {g \in FileIds : g > f} \cup {NoSuchFile}
    IN {l \in SeqsUpTo(targets, Cardinality(targets)) :
            \A a, b \in 1..Len(l) : a # b => l[a] # l[b]}

\* file f declares the remote f and the project f, and maybe a <default>
ManifestFiles(f) ==
    [remotes : {<<f>>}, projects : {<<f>>},
     default_remote : {None, Some([remote |-> f, default_ref |-> None])},
     includes : IncludeLists(f)]

\* the directories of n manifest files 0 .. n-1
RECURSIVE ManifestDirs(_)
ManifestDirs(n) ==
    IF n = 0 THEN {<<>>}
    ELSE {insert(fs, n - 1, m) : fs \in ManifestDirs(n - 1), m \in ManifestFiles(n - 1)}

FlattenInit ==
    /\ files \in ManifestDirs(MaxFiles)
    /\ flattened = None

InitFlatten ==
    FlattenInit /\ OrchIdle /\ ProbeIdle /\ TableIdle /\ ResolveIdle /\ RecursionIdle

\* read_and_flatten(manifest_path, "default.xml")
Flatten ==
    /\ flattened = None
    /\ flattened' = Some(read_and_flatten(0))
    /\ UNCHANGED <<files, stack, spc>>

NextFlatten == Flatten /\ UNCHANGED <<ovars, rvars, pvars, tvars>>

SpecFlatten == InitFlatten /\ [][NextFlatten]_vars

\* =======================================================================
\*  Include flattening, call by call (read_and_flatten on any include graph)
\* =======================================================================
\* Here an <include> may name any file, the including file too. A frame of
\* the stack is a call that has not returned: its manifest so far and the
\* include it works on. The stack has room for StackLimit frames, more than
\* an include tree of MaxFiles files without cycles needs.

\* file f with up to two <include> elements, each naming any file or none
GraphFiles(f) ==
    [remotes : {<<f>>}, projects : {<<f>>},
     default_remote : {None, Some([remote |-> f, default_ref |-> None])},
     includes : SeqsUpTo(FileIds \cup {NoSuchFile}, 2)]

RECURSIVE GraphDirs(_)
GraphDirs(n) ==
    IF n = 0 THEN {<<>>}
    ELSE {insert(fs, n - 1, m) : fs \in GraphDirs(n - 1), m \in GraphFiles(n - 1)}

Frame(m) == [m |-> m, pos |-> 1]
Top == stack[Len(stack)]

\* read_and_flatten(manifest_path, "default.xml") has read the entry file
RecursionInit ==
    /\ files \in GraphDirs(MaxFiles)
    /\ flattened = None
    /\ stack = <<Frame(files[0])>>
    /\ spc = "running"

InitRecursion ==
    RecursionInit /\ OrchIdle /\ ProbeIdle /\ TableIdle /\ ResolveIdle

\* the loop reaches an <include>: read_and_flatten is called for it, and
\* reads the file; without room for another frame the thread overflows its
\* stack and the process is aborted
CallInclude ==
    /\ spc = "running"
    /\ Top.pos <= Len(Top.m.includes)
    /\ LET sub == read(Top.m.includes[Top.pos])
       IN IF Len(stack) >= StackLimit
          THEN /\ spc' = "overflow"
               /\ UNCHANGED <<stack, flattened>>
          ELSE IF sub.kind = "Err"
               THEN /\ spc' = "Err"
                    /\ flattened' = Some(sub)
                    /\ stack' = <<>>
               ELSE /\ spc' = spc
                    /\ flattened' = flattened
                    /\ stack' = Append(stack, Frame(sub.manifest))
    /\ UNCHANGED files

\* the loop of the innermost call is over: it clears its includes and
\* returns, and its caller appends and merges what it returned
ReturnInclude ==
    /\ spc = "running"
    /\ Top.pos > Len(Top.m.includes)
    /\ LET sub == [Top.m EXCEPT !.includes = <<>>]
           n == Len(stack)
       IN IF n = 1
          THEN /\ spc' = "Ok"
               /\ flattened' = Some(FlatOk(sub))
               /\ stack' = <<>>
          ELSE LET parent == stack[n - 1]
                   merged == MergeDefault(AppendSub(parent.m, sub), sub)
               IN IF merged.kind = "Err"
                  THEN /\ spc' = "Err"
                       /\ flattened' = Some(merged)
                       /\ stack' = <<>>
                  ELSE /\ spc' = spc
                       /\ flattened' = flattened
                       /\ stack' = [SubSeq(stack, 1, n - 1) EXCEPT
                                       ![n - 1] = [m |-> merged.manifest,
                                                   pos |-> parent.pos + 1]]
    /\ UNCHANGED files

NextRecursion ==
    \/ CallInclude /\ UNCHANGED <<ovars, rvars, pvars, tvars>>
    \/ ReturnInclude /\ UNCHANGED <<ovars, rvars, pvars, tvars>>

SpecRecursion == InitRecursion /\ [][NextRecursion]_vars

\* =======================================================================
\*  Ref resolution (get_rev_of_branch and its callers)
\* =======================================================================
\* A ref string is a sequence of pieces: "refs/" and "heads/" are pieces of
\* their own, a 40 character hexadecimal string is one piece.
Hex40 == {"0123456789abcdef0123456789abcdef01234567",
          "89abcdef0123456789abcdef0123456789abcdef"}
Is40Hex(s) == Len(s) = 1 /\ s[1] \in Hex40
\* format!("refs/heads/{branch}")
RefsHeads(branch) == <<"refs/", "heads/">> \o branch

\* the ref strings the callers hold
RefStrings ==
    {<<"foo">>, <<"refs/", "heads/", "foo">>, <<"refs/", "tags/", "v1">>,
     <<"0123456789abcdef0123456789abcdef01234567">>}
\* the names a remote may advertise, and the object ids behind them
AdvertisedNames ==
    {RefsHeads(<<"foo">>), RefsHeads(RefsHeads(<<"foo">>)), <<"refs/", "tags/", "v1">>,
     RefsHeads(<<"0123456789abcdef0123456789abcdef01234567">>)}
Oids == {<<h>> : h \in Hex40}

ProbeOk(asked, queried, rev) ==
    [kind |-> "Ok", err |-> "", rev |-> rev, asked |-> asked, connects |-> TRUE,
     queried |-> Some(queried)]
ProbeErr(asked, queried, e) ==
    [kind |-> "Err", err |-> e, rev |-> <<>>, asked |-> asked, connects |-> TRUE,
     queried |-> queried]

\* get_rev_of_branch: the remote is connected to and its references are
\* listed for every ref string; the head named refs/heads/<branch> is looked for
get_rev_of_branch(adv, listing, branch) ==
    IF ~listing THEN ProbeErr(branch, None, "Libgit")
    ELSE IF RefsHeads(branch) \in DOMAIN adv
         THEN ProbeOk(branch, RefsHeads(branch), adv[RefsHeads(branch)])
         ELSE ProbeErr(branch, Some(RefsHeads(branch)), "BranchNotFound")

ProbeInit ==
    /\ ref_string \in RefStrings
    /\ advertised \in UNION {[d -> Oids] : d \in SUBSET AdvertisedNames}
    /\ reachable \in BOOLEAN
    /\ probe = None
    /\ settings_ref \in RefStrings
    /\ caller = "none"

InitProbe ==
    /\ ProbeInit /\ OrchIdle /\ TableIdle
    /\ ResolveIdle
    /\ FlattenIdle

\* incrementally_fetch_projects: nix_prefetch_git_repo(repo, branch, old),
\* where ref_string is the branch the run is for and settings_ref the git_ref
\* of project.branch_settings[branch]
ProbeForProject ==
    /\ probe = None
    /\ probe' = Some(get_rev_of_branch(advertised, reachable, ref_string))
    /\ caller' = "incrementally_fetch_projects"
    /\ UNCHANGED <<ref_string, advertised, reachable, settings_ref>>

\* fetch_git_repo_metadata:
\* nix_prefetch_git_repo(manifest_repo, &format!("refs/heads/{branch}"), None)
ProbeForManifest ==
    /\ probe = None
    /\ probe' = Some(get_rev_of_branch(advertised, reachable, RefsHeads(ref_string)))
    /\ caller' = "fetch_git_repo_metadata"
    /\ UNCHANGED <<ref_string, advertised, reachable, settings_ref>>

NextProbe ==
    \/ ProbeForProject /\ UNCHANGED <<ovars, rvars, fvars, tvars>>
    \/ ProbeForManifest /\ UNCHANGED <<ovars, rvars, fvars, tvars>>

SpecProbe == InitProbe /\ [][NextProbe]_vars

\* =======================================================================
\*  The project table (get_projects, fetch_git_repo_metadata)
\* =======================================================================
BranchNames == {"b1", "b2"}
\* project paths; their order stands for the order of the path strings
ManifestPaths == {1, 2, 3}
ManifestRepoUrl == <<"https:", "/", "/", "github.com", "/", "LineageOS", "/", "android">>

\* <project> elements without a remote or a revision of their own
PlainElements ==
    [path : ManifestPaths, repo_name : {"repo"}, remote : {None},
     git_ref : {None}, copyfiles : {<<>>}, linkfiles : {<<>>}]

\* the <project> elements of a manifest: plain, with a revision of their own,
\* or with a remote of their own; remote "zz" is declared nowhere
ProjectElements ==
    PlainElements
    \cup [path : ManifestPaths, repo_name : {"repo"}, remote : {None},
          git_ref : {Some("rev-project")}, copyfiles : {<<>>}, linkfiles : {<<>>}]
    \cup [path : ManifestPaths, repo_name : {"repo"}, remote : {Some("zz")},
          git_ref : {None}, copyfiles : {<<>>}, linkfiles : {<<>>}]

\* the flattened manifest of branch b: one remote, and a <default> whose
\* revision is the branch; the projects of b1 come with overrides
BranchManifests(b) ==
    [remotes : {<<[name |-> "a", fetch |-> <<"https:", "/", "/", "host", "/", "org">>,
                   default_ref |-> None]>>},
     default_remote : {Some([remote |-> "a", default_ref |-> Some(b)])},
     projects : SeqsUpTo(IF b = "b1" THEN ProjectElements ELSE PlainElements,
                         MaxManifestProjects)]

\* files.insert(dest, src) for every <copyfile> or <linkfile>, in order
FileMap(list) ==
    [d \in {list[n].dest : n \in 1..Len(list)} |->
        list[CHOOSE n \in 1..Len(list) :
                 /\ list[n].dest = d
                 /\ \A k \in 1..Len(list) : list[k].dest = d => k <= n].src]

RepoProject(path) == [path |-> path, nonfree |-> FALSE, branch_settings |-> <<>>]

RepoProjectBranchSettings(url, git_ref, p) ==
    [repo |-> [url |-> url], copyfiles |-> FileMap(p.copyfiles),
     linkfiles |-> FileMap(p.linkfiles), git_ref |-> git_ref]

UpsertFreshRecord(t, path, branch, st) ==
    insert(t, path, [RepoProject(path) EXCEPT !.branch_settings = insert(<<>>, branch, st)])

UpsertKeepsFirst(t, path, branch, st) ==
    LET t1 == IF path \in DOMAIN t THEN t ELSE insert(t, path, RepoProject(path))
    IN IF branch \in DOMAIN t1[path].branch_settings THEN t1
       ELSE [t1 EXCEPT ![path].branch_settings = insert(@, branch, st)]

\* the record of the path is created when the table has none, then the
\* settings are inserted under the branch
Upsert(t, path, branch, st) ==
    LET t1 == IF path \in DOMAIN t THEN t ELSE insert(t, path, RepoProject(path))
    IN [t1 EXCEPT ![path].branch_settings = insert(@, branch, st)]

TableOk(t) == [kind |-> "Ok", err |-> "", table |-> t]
TableErr(e, t) == [kind |-> "Err", err |-> e, table |-> t]

\* get_projects from the n-th project on: an error of get_url_and_ref
\* returns, with the table as the earlier projects left it
RECURSIVE get_projects(_, _, _, _, _)
get_projects(t, m, root, branch, n) ==
    IF n > Len(m.projects) THEN TableOk(t)
    ELSE LET p == m.projects[n]
             r == ResolveProject(m, p, root)
         IN IF r.kind # "Ok" THEN TableErr(r.err, t)
            ELSE get_projects(Upsert(t, p.path, branch,
                                     RepoProjectBranchSettings(r.url, r.ref, p)),
                              m, root, branch, n + 1)

\* projects.values()
values(t) == {t[q] : q \in DOMAIN t}

RECURSIVE sort_descending(_)
sort_descending(S) ==
    IF S = {} THEN <<>>
    ELSE LET first == CHOOSE x \in S : \A y \in S : y.path <= x.path
         IN <<first>> \o sort_descending(S \ {first})

RECURSIVE sort_ascending(_)
sort_ascending(S) ==
    IF S = {} THEN <<>>
    ELSE LET first == CHOOSE x \in S : \A y \in S : x.path <= y.path
         IN <<first>> \o sort_ascending(S \ {first})

\* projects.sort_by_key(|p| p.path.clone())
sort_by_key(S) == sort_ascending(S)

\* what an earlier call left in the output file
EarlierOutput == [projects |-> <<RepoProject(0)>>, complete |-> TRUE]

TableInit ==
    /\ branches \in {<<"b1">>, <<"b1", "b2">>, <<"b2", "b1">>}
    /\ manifests \in [b1 : BranchManifests("b1"), b2 : BranchManifests("b2")]
    /\ table = <<>>
    /\ bidx = 1
    /\ mpc = "branches"
    /\ result = None
    /\ outfile \in {None, Some(EarlierOutput)}

InitTable ==
    /\ TableInit /\ OrchIdle /\ ProbeIdle
    /\ ResolveIdle
    /\ FlattenIdle

\* nix_prefetch_git_repo or read_and_flatten fails for the branch
ManifestFetchFails ==
    /\ mpc = "branches"
    /\ bidx <= Len(branches)
    /\ \E e \in {"Err(PrefetchGit)", "Err(ReadManifest)"} : mpc' = e
    /\ UNCHANGED <<branches, manifests, table, bidx, result, outfile>>

ProcessBranchGoesOn ==
    /\ mpc = "branches"
    /\ bidx <= Len(branches)
    /\ LET b == branches[bidx]
           r == get_projects(table, manifests[b], ManifestRepoUrl, b, 1)
       IN /\ table' = r.table
          /\ bidx' = bidx + 1
          /\ mpc' = mpc
    /\ UNCHANGED <<branches, manifests, result, outfile>>

\* one turn of the loop over the branches: the manifest of the branch is
\* fetched and flattened, and get_projects enters its projects into the table
ProcessBranch ==
    /\ mpc = "branches"
    /\ bidx <= Len(branches)
    /\ LET b == branches[bidx]
           r == get_projects(table, manifests[b], ManifestRepoUrl, b, 1)
       IN /\ table' = r.table
          /\ IF r.kind = "Ok"
             THEN bidx' = bidx + 1 /\ mpc' = mpc
             ELSE bidx' = bidx /\ mpc' = "Err(ReadManifest)"
    /\ UNCHANGED <<branches, manifests, result, outfile>>

\* after the loop: the values are sorted by path, written to the file and
\* returned; a failure to open, write or commit returns Err and leaves the
\* file as it was; file.write may accept only a part of the buffer
SortAndWrite ==
    /\ mpc = "branches"
    /\ bidx > Len(branches)
    /\ LET projects == sort_by_key(values(table))
       IN \E written \in {"all", "part", "none"} :
             IF written = "none"
             THEN mpc' = "Err(FileWrite)" /\ result' = None /\ outfile' = outfile
             ELSE /\ mpc' = "Ok"
                  /\ result' = Some(projects)
                  /\ outfile' = Some([projects |-> projects, complete |-> written = "all"])
    /\ UNCHANGED <<branches, manifests, table, bidx>>

NextTable ==
    \/ ManifestFetchFails /\ UNCHANGED <<ovars, rvars, fvars, pvars>>
    \/ ProcessBranch /\ UNCHANGED <<ovars, rvars, fvars, pvars>>
    \/ SortAndWrite /\ UNCHANGED <<ovars, rvars, fvars, pvars>>

SpecTable == InitTable /\ [][NextTable]_vars

\* =======================================================================
\*  Properties of the fetch orchestrator
\* =======================================================================
IsPrefix(s, t) == Len(s) <= Len(t) /\ SubSeq(t, 1, Len(s)) = s

\* the run still holds its in-memory map
Alive == pc \in {"loop", "save", "commit", "Ok"}

\* project i was resolved in this run to the revision of its loaded descriptor
SameRevision(i) ==
    /\ Alive
    /\ reply[i] = "Ok"
    /\ i \in DOMAIN loaded
    /\ IsSome(loaded[i])
    /\ remote[i] = Some(Unwrap(loaded[i]).rev)

\* C1 (resumability): a project whose loaded lockfile entry is a descriptor
\* with revision R and whose ref resolution reports R again is not handed to
\* nix-prefetch-git, and the descriptor stored under its path is the loaded one.
C1_Resumability ==
    \A i \in Projects :
        SameRevision(i) =>
            /\ i \notin fetched
            /\ i \in DOMAIN lockfile
            /\ lockfile[i] = loaded[i]

C1_Witness == \E i \in Projects : SameRevision(i) /\ pc = "loop" /\ idx > i

C3_CrashSafety ==
    [][file' = file \/ file' = Some(to_string_pretty(lockfile))]_vars

C5_BoundedLostWork ==
    rerun =>
        /\ Cardinality(fetched \cap prevFetched) <= 1
        /\ fetched \cap prevDone = {}

C5_Witness ==
    /\ rerun
    /\ pc = "Ok"
    /\ prevDone # Projects
    /\ prevDone \cap prevFetched # {}
    /\ fetched \cap prevFetched # {}

\* C14 (skip): while the loop stands at a project without branch_settings
\* for the branch, no ref resolution and no fetch is started, and the step
\* that passes over the project leaves the lockfile, in memory and on disk,
\* as it was, an entry stored under the project's path included.
C14_SkipFrame ==
    [][(pc = "loop" /\ idx <= NumProjects /\ ~settings[idx]) =>
          /\ reply' = reply
          /\ fetched' = fetched
          /\ idx' = idx + 1 => (lockfile' = lockfile /\ file' = file /\ tmp' = tmp)]_vars

C14_Witness ==
    /\ pc = "loop"
    /\ \E i \in Projects :
          /\ i < idx
          /\ outcome[i] = "Skipped"
          /\ i \in DOMAIN lockfile
          /\ IsSome(lockfile[i])
          /\ file = Some(to_string_pretty(lockfile))

\* C15: a path whose entry in the loaded lockfile is null is not probed in
\* the run.
C15_AbsentNotReprobed ==
    \A i \in Projects :
        (Alive /\ i \in DOMAIN loaded /\ loaded[i] = None) => reply[i] = "none"

\* what the file holds of the steps before project i, when it is a complete
\* document: the result of every earlier project that was not skipped, and
\* for project i the entry that was loaded
HoldsEarlierResults(i) ==
    Parses(Unwrap(file)) =>
        LET l == from_str(Unwrap(file))
        IN /\ \A j \in 1..(i - 1) :
                 /\ outcome[j] = "Absent" => (j \in DOMAIN l /\ l[j] = None)
                 /\ outcome[j] = "Resolved" =>
                        (j \in DOMAIN l /\ l[j] = Some(FetchgitArgs(j, Unwrap(remote[j]))))
           /\ IF i \in DOMAIN loaded THEN i \in DOMAIN l /\ l[i] = loaded[i]
              ELSE i \notin DOMAIN l

C17_Load ==
    [][pc = "start" =>
          /\ file' = file
          /\ IF file = None
             THEN pc' = "loop" /\ lockfile' = EmptyLockfile
             ELSE IF Parses(Unwrap(file))
                  THEN pc' = "loop"
                  ELSE /\ pc' = "Err(Parser)"
                       /\ idx' = 1
                       /\ reply' = NoReply
                       /\ fetched' = {}]_vars

C17_Witness ==
    /\ pc = "Err(Parser)"
    /\ file = Some(WrongShape)
    /\ reply = NoReply
    /\ \E i \in Projects : settings[i]

\* C20 (round trip): the file that save_repo_lockfile leaves behind loads to
\* a map equal to the lockfile that was saved, null entries included.
C20_RoundTrip ==
    [][(pc = "commit" /\ pc' = "loop") =>
          /\ file' # None
          /\ Parses(Unwrap(file'))
          /\ from_str(Unwrap(file')) = lockfile]_vars

\* =======================================================================
\*  Properties of the resolution
\* =======================================================================
Result == Unwrap(resolved)

\* the name of the remote the project is resolved against
ChosenName ==
    IF IsSome(project.remote) THEN project.remote
    ELSE IF IsSome(manifest.default_remote) THEN Some(Unwrap(manifest.default_remote).remote)
    ELSE None

\* the <remote> element of that name that is declared last, if there is one
ChosenRemote ==
    LET at == {n \in 1..Len(manifest.remotes) : Some(manifest.remotes[n].name) = ChosenName}
    IN IF at = {} THEN None
       ELSE Some(manifest.remotes[CHOOSE n \in at : \A k \in at : k <= n])

\* the revision attribute of the <default> element
DefaultRevision ==
    IF IsSome(manifest.default_remote) THEN Unwrap(manifest.default_remote).default_ref ELSE None

\* the revision attribute of the chosen remote
OwnRevision == IF IsSome(ChosenRemote) THEN Unwrap(ChosenRemote).default_ref ELSE None

ChosenIsDefault ==
    /\ IsSome(manifest.default_remote)
    /\ ChosenName = Some(Unwrap(manifest.default_remote).remote)

\* C6 as claimed: the ref that is returned is the project override, else the
\* chosen remote's own revision, else the revision of <default>.
C6_RefPrecedenceRemoteFirst ==
    (IsSome(resolved) /\ Result.kind = "Ok") =>
        Some(Result.ref) = OrElse(project.git_ref, OrElse(OwnRevision, DefaultRevision))

\* C6 as amended: the ref that is returned is the project override, else the
\* chosen remote's effective default ref (for the default remote the revision
\* of <default> if it has one, else the remote's own; for another remote its
\* own), else the revision of <default>; when the chosen remote is the
\* default remote, both declare a revision and the project has no override,
\* the call succeeds and returns the revision of <default>.
C6_RefPrecedence ==
    IsSome(resolved) =>
        /\ Result.kind = "Ok" =>
              Some(Result.ref) =
                  OrElse(project.git_ref,
                         OrElse(IF ChosenIsDefault THEN OrElse(DefaultRevision, OwnRevision)
                                ELSE OwnRevision,
                                DefaultRevision))
        /\ (/\ ChosenIsDefault
            /\ IsSome(OwnRevision)
            /\ IsSome(DefaultRevision)
            /\ project.git_ref = None) =>
              /\ Result.kind = "Ok"
              /\ Some(Result.ref) = DefaultRevision

C6_Witness ==
    /\ IsSome(resolved)
    /\ Result.kind = "Ok"
    /\ ChosenIsDefault
    /\ IsSome(OwnRevision)
    /\ IsSome(DefaultRevision)
    /\ project.git_ref = None
    /\ Result.ref = "rev-default"

\* C7 (basic resolution): a single remote r with fetch F (a plain url, without
\* a trailing "/") and revision V, named by a <default> without revision; a
\* project named N without overrides resolves to url F/N and ref V.
C7_BasicResolution ==
    (/\ IsSome(resolved)
     /\ Len(manifest.remotes) = 1
     /\ IsSome(manifest.remotes[1].default_ref)
     /\ manifest.default_remote =
            Some([remote |-> manifest.remotes[1].name, default_ref |-> None])
     /\ manifest.remotes[1].fetch # DotDot
     /\ strip_suffix(manifest.remotes[1].fetch) = manifest.remotes[1].fetch
     /\ project.remote = None
     /\ project.git_ref = None) =>
        /\ Result.kind = "Ok"
        /\ Result.url = manifest.remotes[1].fetch \o <<"/">> \o <<project.repo_name>>
        /\ Some(Result.ref) = manifest.remotes[1].default_ref

\* C8: MissingDefaultRemote is returned if and only if the project names no
\* remote and the manifest has no <default>.
C8_MissingDefaultRemote ==
    IsSome(resolved) =>
        ((Result.kind = "Err" /\ Result.err = "MissingDefaultRemote")
            <=> (project.remote = None /\ manifest.default_remote = None))

\* C9: MissingDefaultRef is returned only if none of the three tiers has a
\* ref: no project override, no default ref of the chosen remote, no revision
\* of <default>.
C9_MissingDefaultRef ==
    (IsSome(resolved) /\ Result.kind = "Err" /\ Result.err = "MissingDefaultRef") =>
        /\ project.git_ref = None
        /\ OwnRevision = None
        /\ DefaultRevision = None

\* the <remote> element of name nm that is declared last
LastNamed(nm) ==
    LET at == {n \in 1..Len(manifest.remotes) : manifest.remotes[n].name = nm}
    IN manifest.remotes[CHOOSE n \in at : \A k \in at : k <= n]

DeclaredNames == {manifest.remotes[n].name : n \in 1..Len(manifest.remotes)}
Specs == Unwrap(remote_table)

\* u is s with one trailing "/" removed
WithoutTrailingSlash(u, s) ==
    IF Len(s) > 0 /\ s[Len(s)] = "/" THEN u \o <<"/">> = s ELSE u = s

\* u is s with its last two segments removed: s is u, "/", a segment, "/",
\* a segment, where a segment holds no "/" (and may be empty)
WithoutLastTwoSegments(u, s) ==
    \E i, j \in 1..Len(s) :
        /\ i < j
        /\ s[i] = "/"
        /\ s[j] = "/"
        /\ \A k \in (i + 1)..Len(s) : k # j => s[k] # "/"
        /\ u = SubSeq(s, 1, i - 1)

\* C21: the url of the RemoteSpec of a remote whose fetch is ".." is root_url
\* with its last two path segments removed; for any other fetch it is the
\* fetch with one trailing "/" removed.
C21_RemoteSpecUrl ==
    IsSome(remote_table) =>
        /\ DOMAIN Specs = DeclaredNames
        /\ \A nm \in DeclaredNames :
              IF LastNamed(nm).fetch = DotDot
              THEN WithoutLastTwoSegments(Specs[nm].url, root_url)
              ELSE WithoutTrailingSlash(Specs[nm].url, LastNamed(nm).fetch)

C21_Witness ==
    /\ IsSome(remote_table)
    /\ DeclaredNames = RemoteNames
    /\ LastNamed("a").fetch = DotDot
    /\ Specs["a"].url = <<"https:", "/", "/", "github.com">>
    /\ LastNamed("b").fetch # Specs["b"].url

\* C22: the default ref of the RemoteSpec of the remote that <default> names
\* is the revision of <default> when it has one and the remote's own revision
\* otherwise; that of every other remote is the remote's own revision, absent
\* when the remote has none, whatever <default> holds.
C22_RemoteSpecDefaultRef ==
    IsSome(remote_table) =>
        \A nm \in DeclaredNames :
            Specs[nm].default_ref =
                IF IsSome(manifest.default_remote) /\ Unwrap(manifest.default_remote).remote = nm
                THEN (IF IsSome(DefaultRevision) THEN DefaultRevision
                      ELSE LastNamed(nm).default_ref)
                ELSE LastNamed(nm).default_ref

C22_Witness ==
    /\ IsSome(remote_table)
    /\ DeclaredNames = RemoteNames
    /\ manifest.default_remote = Some([remote |-> "a", default_ref |-> Some("rev-default")])
    /\ LastNamed("a").default_ref = Some("rev-a")
    /\ LastNamed("b").default_ref = None
    /\ Specs["a"].default_ref = Some("rev-default")
    /\ Specs["b"].default_ref = None

\* =======================================================================
\*  Properties of the flattening
\* =======================================================================
Flat == Unwrap(flattened)

\* the manifests of the include tree under f, one for each time it is included
RECURSIVE TreeOf(_)
TreeOf(f) ==
    IF f \notin DOMAIN files THEN <<f>>
    ELSE LET RECURSIVE Under(_)
             Under(incs) == IF incs = <<>> THEN <<>> ELSE TreeOf(Head(incs)) \o Under(Tail(incs))
         IN <<f>> \o Under(files[f].includes)

Tree == TreeOf(0)
\* every include of the tree names a file that is there
AllRead == \A n \in 1..Len(Tree) : Tree[n] \in DOMAIN files
\* the places of the tree at which a manifest with a <default> stands
Declaring == {n \in 1..Len(Tree) : Tree[n] \in DOMAIN files /\ IsSome(files[Tree[n]].default_remote)}

\* C10: when two or more manifests of the include tree declare a <default>,
\* read_and_flatten fails with MoreThanOneDefaultRemote; when it succeeds the
\* result has at most one default remote, the single one declared in the tree.
C10_OneDefaultRemote ==
    IsSome(flattened) =>
        /\ (AllRead /\ Cardinality(Declaring) >= 2) =>
              (Flat.kind = "Err" /\ Flat.err = "MoreThanOneDefaultRemote")
        /\ Flat.kind = "Ok" =>
              /\ Cardinality(Declaring) <= 1
              /\ \A n \in Declaring : Flat.manifest.default_remote = files[Tree[n]].default_remote
              /\ Declaring = {} => Flat.manifest.default_remote = None

\* two manifests below the entry file, at different depths, declare a <default>
C10_Witness ==
    /\ IsSome(flattened)
    /\ Flat.kind = "Err"
    /\ Flat.err = "MoreThanOneDefaultRemote"
    /\ files[0].default_remote = None
    /\ files[0].includes = <<1, 2>>
    /\ files[1].includes = <<2>>
    /\ files[1].default_remote # None
    /\ files[2].default_remote # None

\* C11: on an include tree without cycles read_and_flatten returns, when
\* every include can be read and at most one manifest declares a <default>, a
\* manifest; a manifest that is returned has no includes, and its remotes and
\* its projects are those of the entry file followed by the flattened ones of
\* each include, in include order, depth first; an entry file without
\* <include> is returned as it was parsed.
C11_FlattenOrder ==
    IsSome(flattened) =>
        /\ (AllRead /\ Cardinality(Declaring) <= 1) => Flat.kind = "Ok"
        /\ Flat.kind = "Ok" =>
              /\ Flat.manifest.includes = <<>>
              /\ Flat.manifest.remotes = [n \in 1..Len(Tree) |-> files[Tree[n]].remotes[1]]
              /\ Flat.manifest.projects = [n \in 1..Len(Tree) |-> files[Tree[n]].projects[1]]
        /\ files[0].includes = <<>> => Flat = FlatOk(files[0])

\* the entry file includes 2 and then 1, and 1 includes 2 again
C11_Witness ==
    /\ IsSome(flattened)
    /\ Flat.kind = "Ok"
    /\ files[0].includes = <<2, 1>>
    /\ files[1].includes = <<2>>
    /\ Flat.manifest.remotes = <<0, 2, 1, 2>>

\* =======================================================================
\*  Properties of the ref resolution
\* =======================================================================
Probed == Unwrap(probe)

\* C12: a ref string of exactly 40 hexadecimal characters is returned as it
\* is, and no connection to the remote is made.
C12_PinnedCommit ==
    (IsSome(probe) /\ Is40Hex(Probed.asked)) =>
        /\ Probed.kind = "Ok"
        /\ Probed.rev = Probed.asked
        /\ ~Probed.connects

\* C13: the name looked for among the advertised references is the ref
\* string itself when it starts with "refs/", and "refs/heads/" followed by
\* the ref string otherwise.
C13_RefNormalization ==
    (IsSome(probe) /\ ~Is40Hex(Probed.asked) /\ IsSome(Probed.queried)) =>
        Probed.queried =
            Some(IF Probed.asked[1] = "refs/" THEN Probed.asked ELSE RefsHeads(Probed.asked))

\* =======================================================================
\*  Properties of the project table
\* =======================================================================
\* the paths the manifest of branch b declares
Declared(b) == {manifests[b].projects[n].path : n \in 1..Len(manifests[b].projects)}
Settings(r) == r.branch_settings

\* C18 (upsert): while get_projects processes branch B, every record that is
\* in the table stays, with its path, its nonfree flag and the settings of
\* every branch other than B; the record of a path that B's manifest does not
\* declare is unchanged; a record that is new is the record of a path B's
\* manifest declares and holds the settings of B only.
C18_UpsertFrame ==
    [][(mpc = "branches" /\ bidx <= Len(branches)) =>
          LET b == branches[bidx]
          IN /\ \A q \in DOMAIN table :
                   /\ q \in DOMAIN table'
                   /\ table'[q].path = table[q].path
                   /\ table'[q].nonfree = table[q].nonfree
                   /\ DOMAIN Settings(table'[q]) \subseteq DOMAIN Settings(table[q]) \cup {b}
                   /\ \A c \in DOMAIN Settings(table[q]) :
                          c # b => /\ c \in DOMAIN Settings(table'[q])
                                   /\ Settings(table'[q])[c] = Settings(table[q])[c]
                   /\ q \notin Declared(b) => table'[q] = table[q]
             /\ \A q \in DOMAIN table' \ DOMAIN table :
                   /\ q \in Declared(b)
                   /\ table'[q].path = q
                   /\ table'[q].nonfree = FALSE
                   /\ DOMAIN Settings(table'[q]) = {b}
                   /\ \E n \in 1..Len(manifests[b].projects) :
                          LET p == manifests[b].projects[n]
                          IN /\ p.path = q
                             /\ Settings(table'[q])[b].git_ref =
                                    IF IsSome(p.git_ref) THEN Unwrap(p.git_ref) ELSE b
             /\ bidx' = bidx + 1 => Declared(b) \subseteq DOMAIN table']_vars

\* after both branches: a path of both, and a path the second branch left alone
C18_Witness ==
    /\ mpc = "branches"
    /\ bidx = 3
    /\ \E q, u \in DOMAIN table :
          /\ DOMAIN Settings(table[q]) = BranchNames
          /\ DOMAIN Settings(table[u]) = {branches[1]}
          /\ Settings(table[q])["b1"].git_ref = "b1"
          /\ Settings(table[q])["b2"].git_ref = "b2"

RECURSIVE TableAfter(_, _)
\* the table after get_projects was applied for the branches of order, in turn
TableAfter(t, order) ==
    IF order = <<>> THEN t
    ELSE TableAfter(get_projects(t, manifests[Head(order)], ManifestRepoUrl, Head(order), 1).table,
                    Tail(order))

Reversed(order) == [n \in 1..Len(order) |-> order[Len(order) + 1 - n]]

\* C19: the list that fetch_git_repo_metadata returns holds one record for
\* every path declared on any of the branches and no other, strictly
\* ascending by path, and it is the list of the records that processing the
\* branches in the opposite order yields.
C19_SortedProjects ==
    mpc = "Ok" =>
        LET r == Unwrap(result)
        IN /\ {r[n].path : n \in 1..Len(r)} =
                  UNION {Declared(branches[k]) : k \in 1..Len(branches)}
           /\ \A n \in 1..(Len(r) - 1) : r[n].path < r[n + 1].path
           /\ {r[n] : n \in 1..Len(r)} = values(TableAfter(<<>>, Reversed(branches)))

\* three paths, declared out of order on two branches
C19_Witness ==
    /\ mpc = "Ok"
    /\ Len(branches) = 2
    /\ Len(Unwrap(result)) = 3
    /\ manifests[branches[1]].projects[1].path = 3
    /\ manifests[branches[2]].projects[1].path = 2
    /\ Declared(branches[1]) \cap Declared(branches[2]) # {}

\* a <project> of branch b names a remote that no <remote> declares
UnknownRemoteIn(b) ==
    \E n \in 1..Len(manifests[b].projects) :
        LET p == manifests[b].projects[n]
        IN /\ IsSome(p.remote)
           /\ Unwrap(p.remote) \notin
                  {manifests[b].remotes[k].name : k \in 1..Len(manifests[b].remotes)}

\* C26: a structural manifest error in a requested branch makes
\* fetch_git_repo_metadata return an error at once: the loop does not go on
\* to a later branch, no list is returned, and the output file is neither
\* created nor modified.
C26_StructuralErrorAborts ==
    /\ [][(mpc = "branches" /\ bidx <= Len(branches) /\ UnknownRemoteIn(branches[bidx])) =>
             /\ mpc' \in {"Err(ReadManifest)", "Err(PrefetchGit)"}
             /\ bidx' = bidx
             /\ result' = None
             /\ outfile' = outfile]_vars
    /\ [][mpc # "Err(ReadManifest)"]_vars
    /\ [](mpc = "Err(ReadManifest)" =>
             /\ result = None
             /\ outfile \in {None, Some(EarlierOutput)})

\* the first branch has the error, with an earlier output on disk
C26_Witness ==
    /\ mpc = "Err(ReadManifest)"
    /\ Len(branches) = 2
    /\ bidx = 1
    /\ UnknownRemoteIn(branches[1])
    /\ outfile = Some(EarlierOutput)

\* the last <project> of path q in the flattened manifest of branch b
LastDeclaration(b, q) ==
    LET at == {n \in 1..Len(manifests[b].projects) : manifests[b].projects[n].path = q}
    IN manifests[b].projects[CHOOSE n \in at : \A k \in at : k <= n]

\* C27: when the flattened manifest of a branch declares a path more than
\* once, the settings stored for the path and the branch are those of the
\* declaration that comes last, and nothing of an earlier one is left.
C27_LastProcessedWins ==
    [][(mpc = "branches" /\ bidx <= Len(branches) /\ bidx' = bidx + 1) =>
          LET b == branches[bidx]
          IN \A q \in Declared(b) :
                /\ q \in DOMAIN table'
                /\ b \in DOMAIN Settings(table'[q])
                /\ Settings(table'[q])[b] =
                      [repo |-> [url |-> <<"https:", "/", "/", "host", "/", "org", "/",
                                          LastDeclaration(b, q).repo_name>>],
                       copyfiles |-> <<>>,
                       linkfiles |-> <<>>,
                       git_ref |-> IF IsSome(LastDeclaration(b, q).git_ref)
                                   THEN Unwrap(LastDeclaration(b, q).git_ref)
                                   ELSE b]]_vars

\* path 1 twice on b1, first with a revision of its own, then without
C27_Witness ==
    /\ mpc = "branches"
    /\ bidx = 2
    /\ branches[1] = "b1"
    /\ Len(manifests["b1"].projects) = 2
    /\ manifests["b1"].projects[1].path = 1
    /\ manifests["b1"].projects[2].path = 1
    /\ manifests["b1"].projects[1].git_ref = Some("rev-project")
    /\ manifests["b1"].projects[2].git_ref = None
    /\ Settings(table[1])["b1"].git_ref = "b1"

\* C28: in a second run over the same projects and the same remotes, after a
\* first run whose steps all completed, nothing is fetched, the file keeps the
\* content the first run left, and the run returns the map it loaded from it.
C28_RerunIdempotent ==
    [][(rerun /\ prevDone = Projects) =>
          /\ fetched' = {}
          /\ file' = file
          /\ pc' # "Err(Parser)"
          /\ pc' = "Ok" => lockfile' = loaded']_vars

\* C29: a step of the loop changes at most the entry of the path of the
\* project it is at; the entries of the other paths, those of paths outside
\* the project list included, go unchanged through the run and are in the
\* map it returns.
C29_StepFrame ==
    /\ [][(pc \in Running /\ pc' \in Running \cup {"Ok"}) =>
             /\ DOMAIN lockfile' \subseteq (DOMAIN lockfile) \cup {idx}
             /\ \A q \in DOMAIN lockfile :
                    q # idx => (q \in DOMAIN lockfile' /\ lockfile'[q] = lockfile[q])]_vars
    /\ [](pc = "Ok" =>
             \A q \in DOMAIN loaded :
                 /\ q \in DOMAIN lockfile
                 /\ (q \notin Projects \/ outcome[q] = "Skipped") => lockfile[q] = loaded[q])

\* a stale entry and the entry of a skipped project, next to a new entry
C29_Witness ==
    /\ pc = "Ok"
    /\ DOMAIN loaded = {0, 2}
    /\ outcome[1] = "Resolved"
    /\ outcome[2] = "Skipped"
    /\ DOMAIN lockfile = {0, 1, 2}
    /\ lockfile[0] = loaded[0]
    /\ lockfile[2] = loaded[2]

\* C30: the map of a run that returned Ok has a key for every project with
\* settings for the branch, null for those whose ref resolution reported
\* BranchNotFound in this run and a descriptor for the others; and when a
\* project was not skipped, the lockfile file deserializes to the returned map.
C30_ReturnedLockfile ==
    pc = "Ok" =>
        /\ \A i \in Projects :
               settings[i] =>
                   /\ i \in DOMAIN lockfile
                   /\ lockfile[i] = None <=> reply[i] = "BranchNotFound"
        /\ (\E i \in Projects : settings[i]) =>
               /\ file # None
               /\ Parses(Unwrap(file))
               /\ from_str(Unwrap(file)) = lockfile

TerminalStates == {"Skipped", "Absent", "Resolved"}

\* a project changes state only while it is the one the loop is at, and only
\* from Unresolved to a terminal state
OneStateChange ==
    \A i \in Projects :
        outcome'[i] # outcome[i] =>
            /\ i = idx
            /\ pc = "loop"
            /\ outcome[i] = "Unresolved"
            /\ outcome'[i] \in TerminalStates

\* the projects before the loop index are done, those after it untouched
InListOrder ==
    \A j \in Projects :
        /\ j < idx => outcome[j] \in TerminalStates
        /\ j > idx => outcome[j] = "Unresolved"

\* a run that returned Ok left every project in a terminal state and returns
\* the map that holds what each of them came to
ReturnsFinalLockfile ==
    pc = "Ok" =>
        \A j \in Projects :
            /\ outcome[j] \in TerminalStates
            /\ outcome[j] = "Absent" => (j \in DOMAIN lockfile /\ lockfile[j] = None)
            /\ outcome[j] = "Resolved" => (j \in DOMAIN lockfile /\ IsSome(lockfile[j]))

\* C25: within one run the projects are processed one at a time in list
\* order; each goes from Unresolved to exactly one of Skipped, Absent and
\* Resolved and does not change again; the run comes to a return, and when no
\* fatal error occurred every project is terminal and the lockfile is returned.
C25_ProjectStateMachine ==
    /\ [][OneStateChange]_vars
    /\ [](InListOrder /\ ReturnsFinalLockfile)
    /\ <>(pc \in {"Ok"} \cup Errors)
C25_Witness ==
    /\ pc = "Ok"
    /\ outcome[1] = "Absent"
    /\ outcome[2] = "Skipped"

\* C24: for a project that is not skipped the orchestrator resolves the
\* revision of the git ref stored in the project's branch settings, not of
\* the branch name.
C24_ProbesSettingsRef ==
    (IsSome(probe) /\ caller = "incrementally_fetch_projects") =>
        Probed.asked = settings_ref

\* =======================================================================
\*  Properties of the recursion
\* =======================================================================
\* C23: read_and_flatten comes to an end on every include graph, one with a
\* cycle included: the recursion is cut by an error or by a depth bound, and
\* never goes on until the stack is exhausted.
C23_Terminates == spc # "overflow"

\* =======================================================================
\*  Properties of get_remote_specs over any root url
\* =======================================================================
SpecsSlash == Unwrap(remote_table_slash)

\* C31: for a remote whose fetch is "..", get_remote_specs derives the same
\* url for a root url and for that root url followed by "/".
C31_TrailingSlashInvariance ==
    (IsSome(remote_table) /\ IsSome(remote_table_slash)) =>
        \A nm \in DeclaredNames :
            LastNamed(nm).fetch = DotDot => Specs[nm].url = SpecsSlash[nm].url

\* C32: get_remote_specs does not panic, whatever the root url: with a remote
\* whose fetch is ".." and a root url that is empty or holds no "/", the call
\* returns.
C32_NeverPanics ==
    "U" \in calls => IsSome(remote_table)

====
